---- MODULE Spec2Model ----
(***************************************************************************)
(* Model of the RAG subsystem of NotebookLM-Reimagined:                    *)
(*   backend/app/services/rag.py   TextChunker, EmbeddingService,          *)
(*                                 RAGService                              *)
(*   backend/app/routers/chat.py   get_sources_content, get_rag_context    *)
(*                                                                         *)
(* A Python str is a sequence of one-character strings.  The module holds  *)
(* several specifications over the same variables, one per component:      *)
(*   SpecChunker   TextChunker.split_text on bounded texts and parameters  *)
(*   SpecEmbedder  EmbeddingService.generate_embedding and                 *)
(*                 generate_query_embedding on texts around the cap        *)
(*   SpecIngest    RAGService.process_source, one call, step by step       *)
(*   SpecQuery     get_rag_context, one call, step by step                 *)
(***************************************************************************)
EXTENDS Integers, Sequences, FiniteSets, TLC

VARIABLES
    chunk_size,     \* TextChunker.chunk_size
    chunk_overlap,  \* TextChunker.chunk_overlap
    pc,             \* position of the one call in progress
    arg,            \* the call's text argument (text / content / query)
    result,         \* what the call returned or raised
    provider_calls, \* the genai.embed_content requests made so far, in order
    source_id,      \* process_source: its source_id argument
    chunks,         \* process_source: the list split_text returned
    embeddings,     \* generate_embeddings_batch: the list built so far
    batch_start,    \* process_source: i of `for i in range(0, len, batch_size)`
    store_calls,    \* the store requests executed so far, in order
    source_chunks,  \* the rows of the store's table source_chunks
    sources_table,  \* the rows of the store's table sources
    notebook_id,    \* get_rag_context: its notebook_id argument
    source_ids,     \* get_rag_context: its source_ids argument (<<>> for None)
    search_result   \* get_rag_context: what rag_service.search returned or raised

ingestVars == <<source_id, chunks, embeddings, batch_start>>
storeVars == <<store_calls, source_chunks, sources_table>>
queryVars == <<notebook_id, source_ids, search_result>>
vars == <<chunk_size, chunk_overlap, pc, arg, result, provider_calls,
          ingestVars, storeVars, queryVars>>

\* ------------------------------------------------------------------ bounds

MaxTextLen == 4
MaxChunkSize == 3
MaxOverlap == 3
MaxShortLen == 2     \* short texts given to the embedder
MaxExcess == 3       \* how far a long text exceeds the truncation length
MaxContentLen == 3   \* short contents given to process_source
LongTail == 20       \* the longest content yields 2 * batch_size + LongTail chunks
MaxResults == 3      \* rows a similarity search returns at most

\* ------------------------------------------------------- Python str helpers

SP == " "
NL == "\n"
TAB == "\t"

\* The characters texts are drawn from: a letter, a full stop, and the three
\* whitespace characters of which two are separators and one (tab) is not.
Alphabet == {"a", ".", SP, NL, TAB}

\* str.isspace for one character
IsSpace(c) == c \in {SP, NL, TAB}

RECURSIVE TextsUpTo(_)
TextsUpTo(n) ==
    IF n = 0 THEN {<<>>}
    ELSE LET shorter == TextsUpTo(n - 1)
         IN shorter \cup {Append(t, c) : t \in {s \in shorter : Len(s) = n - 1}, c \in Alphabet}

Range(f) == {f[i] : i \in DOMAIN f}

Min(a, b) == IF a <= b THEN a ELSE b

\* s[i:j] with 0 <= i, Python slice clamping
Slice(s, i, j) == SubSeq(s, i + 1, Min(j, Len(s)))

RECURSIVE LStrip(_)
LStrip(s) == IF s # <<>> /\ IsSpace(Head(s)) THEN LStrip(Tail(s)) ELSE s

RECURSIVE RStrip(_)
RStrip(s) ==
    IF s # <<>> /\ IsSpace(s[Len(s)]) THEN RStrip(SubSeq(s, 1, Len(s) - 1)) ELSE s

\* A strip that removes spaces only: " \n".strip(" ") stays "\n".
StripSpacesOnly(s) ==
    LET RECURSIVE L(_), R(_)
        L(t) == IF t # <<>> /\ Head(t) = SP THEN L(Tail(t)) ELSE t
        R(t) == IF t # <<>> /\ t[Len(t)] = SP THEN R(SubSeq(t, 1, Len(t) - 1)) ELSE t
    IN R(L(s))

\* str.strip()
Strip(s) == RStrip(LStrip(s))

\* str.find(sep) + 1, with 0 for "not found"; sep is not empty
Find(s, sep) ==
    LET hits == {j \in 1..(Len(s) - Len(sep) + 1) : SubSeq(s, j, j + Len(sep) - 1) = sep}
    IN IF hits = {} THEN 0 ELSE CHOOSE j \in hits : \A k \in hits : j <= k

\* str.split(sep), sep not empty: always at least one piece
RECURSIVE Split(_, _)
Split(s, sep) ==
    LET j == Find(s, sep)
    IN IF j = 0 THEN <<s>>
       ELSE <<SubSeq(s, 1, j - 1)>> \o Split(SubSeq(s, j + Len(sep), Len(s)), sep)

\* ------------------------------------------------------------- TextChunker

\* TextChunker.__init__'s default separators: "\n\n", "\n", ". ", " ", ""
separators == << <<NL, NL>>, <<NL>>, <<".", SP>>, <<SP>>, <<>> >>

\* What a chunker method produces: a list of chunks, or a raised ValueError.
Ok(cs) == [raised |-> FALSE, chunks |-> cs]
Raised == [raised |-> TRUE, chunks |-> <<>>]

\* _split_by_size: range(0, len(text), step) raises ValueError for step 0 and
\* is empty for a negative step; for a positive step it has ceil(len / step)
\* values i, and text[i:i + C] is never empty for i < len(text).
SizeSlices(text, C, step) ==
    [k \in 1..((Len(text) + step - 1) \div step) |->
        Slice(text, (k - 1) * step, (k - 1) * step + C)]

split_by_size(text, C, O) ==
    LET step == C - O
    IN IF step = 0 THEN Raised
       ELSE IF step < 0 THEN Ok(<<>>)
       ELSE Ok(SizeSlices(text, C, step))

\* prev_chunk[-O:] if len(prev_chunk) > O else prev_chunk
overlap_text(prev_chunk, O) ==
    IF Len(prev_chunk) > O
    THEN SubSeq(prev_chunk, Len(prev_chunk) - O + 1, Len(prev_chunk))
    ELSE prev_chunk

add_overlap(cs, O) ==
    IF Len(cs) <= 1 THEN cs
    ELSE [i \in 1..Len(cs) |->
            IF i > 1 /\ O > 0
            THEN overlap_text(cs[i - 1], O) \o <<SP>> \o cs[i]
            ELSE cs[i]]

\* _recursive_split with self.chunk_size = C and self.chunk_overlap = O.
\* split_loop is its for loop over splits[k..], acc its locals
\* (chunks, current_chunk); accumulate is the list handed to _add_overlap.
RECURSIVE recursive_split(_, _, _, _), split_loop(_, _, _, _, _, _), accumulate(_, _, _, _)

split_loop(splits, k, acc, seps, C, O) ==
    IF acc.raised \/ k > Len(splits) THEN acc
    ELSE
      LET split == splits[k]
          potential_chunk ==
              IF acc.current # <<>> THEN acc.current \o seps[1] \o split ELSE split
      IN IF Len(potential_chunk) <= C
         THEN split_loop(splits, k + 1, [acc EXCEPT !.current = potential_chunk], seps, C, O)
         ELSE
           LET closed == IF acc.current # <<>>
                         THEN Append(acc.chunks, acc.current) ELSE acc.chunks
           IN IF Len(split) > C
              THEN LET sub == recursive_split(split, Tail(seps), C, O)
                       n == Len(sub.chunks)
                   IN IF sub.raised
                      THEN [raised |-> TRUE, chunks |-> <<>>, current |-> <<>>]
                      ELSE split_loop(splits, k + 1,
                             [raised |-> FALSE,
                              chunks |-> closed \o (IF n > 0 THEN SubSeq(sub.chunks, 1, n - 1)
                                                            ELSE <<>>),
                              current |-> IF n > 0 THEN sub.chunks[n] ELSE <<>>],
                             seps, C, O)
              ELSE split_loop(splits, k + 1,
                     [raised |-> FALSE, chunks |-> closed, current |-> split], seps, C, O)

accumulate(text, seps, C, O) ==
    LET acc == split_loop(Split(text, seps[1]), 1,
                          [raised |-> FALSE, chunks |-> <<>>, current |-> <<>>], seps, C, O)
    IN IF acc.raised THEN Raised
       ELSE Ok(IF acc.current # <<>> THEN Append(acc.chunks, acc.current) ELSE acc.chunks)

recursive_split(text, seps, C, O) ==
    IF seps = <<>> THEN split_by_size(text, C, O)
    ELSE IF seps[1] = <<>> THEN split_by_size(text, C, O)
    ELSE LET r == accumulate(text, seps, C, O)
         IN IF r.raised THEN Raised ELSE Ok(add_overlap(r.chunks, O))

\* _estimate_tokens
estimate_tokens(text) == Len(text) \div 4

\* The result list of split_text for the chunks _recursive_split returned:
\* enumerate(chunks) numbers every chunk, whitespace-only ones are skipped.
HasContent(d) == d.content # <<>>

chunk_dicts(cs) ==
    SelectSeq([i \in 1..Len(cs) |->
                  [chunk_index |-> i - 1,
                   content |-> Strip(cs[i]),
                   token_count |-> estimate_tokens(cs[i])]],
              HasContent)

split_text(text, C, O) ==
    IF text = <<>> \/ Strip(text) = <<>> THEN Ok(<<>>)
    ELSE LET r == recursive_split(Strip(text), separators, C, O)
         IN IF r.raised THEN Raised ELSE Ok(chunk_dicts(r.chunks))

\* No process_source call and no store in the specifications of the parts.
NoIngest == source_id = "none" /\ chunks = <<>> /\ embeddings = <<>> /\ batch_start = 0
NoStore == store_calls = <<>> /\ source_chunks = <<>> /\ sources_table = <<>>
NoQuery == notebook_id = "none" /\ source_ids = <<>> /\ search_result = [raised |-> FALSE, value |-> <<>>]

\* ------------------------------------------------ specification: the chunker

\* A TextChunker constructed with any chunk_size and chunk_overlap (__init__
\* stores them unchecked) and a text about to be split.
InitChunker ==
    /\ chunk_size \in 1..MaxChunkSize
    /\ chunk_overlap \in 0..MaxOverlap
    /\ arg \in TextsUpTo(MaxTextLen)
    /\ pc = "split_text"
    /\ result = Ok(<<>>)
    /\ provider_calls = <<>>
    /\ NoIngest
    /\ NoStore
    /\ NoQuery

\* TextChunker.split_text(arg)
SplitText ==
    /\ pc = "split_text"
    /\ result' = split_text(arg, chunk_size, chunk_overlap)
    /\ pc' = IF result'.raised THEN "raised" ELSE "returned"
    /\ UNCHANGED <<chunk_size, chunk_overlap, arg, provider_calls, ingestVars, storeVars, queryVars>>

NextChunker == SplitText

SpecChunker == InitChunker /\ [][NextChunker]_vars

\* ---- C6: for chunk_size > overlap >= 0 the chunk_index values of the chunks
\* split_text returns are 0..n-1 in output order, also when whitespace-only
\* segments were filtered out.
ValidParams == chunk_size > chunk_overlap /\ chunk_overlap >= 0

C6_ContiguousIndex ==
    (pc = "returned" /\ ValidParams) =>
        \A i \in 1..Len(result.chunks) : result.chunks[i].chunk_index = i - 1

\* ---- C7: for chunk_size > overlap >= 0 no segment the splitting produces,
\* before overlap is injected into it, is longer than chunk_size.  (The last
\* separator is "", so no piece is indivisible and the exception never applies.)
\* The segments are the list the outermost _recursive_split hands to
\* _add_overlap.
C7_SegmentsWithinSize ==
    (pc = "returned" /\ ValidParams /\ Strip(arg) # <<>>) =>
        \A seg \in Range(accumulate(Strip(arg), separators, chunk_size, chunk_overlap).chunks) :
            Len(seg) <= chunk_size

\* ---- C8: for chunk_size > overlap >= 0 the chunks are the segments of the
\* split with overlap 0, each after the first prefixed once with the last
\* min(O, len) characters of the segment before it and a space.
C8_OverlapOnce ==
    (pc = "returned" /\ ValidParams /\ Strip(arg) # <<>>) =>
        recursive_split(Strip(arg), separators, chunk_size, chunk_overlap).chunks
          = add_overlap(recursive_split(Strip(arg), separators, chunk_size, 0).chunks,
                        chunk_overlap)

\* ---- C9: with overlap >= chunk_size every split_text call is rejected with
\* an error: it never returns a chunk list.
C9_InvalidParamsRejected ==
    (pc # "split_text" /\ chunk_overlap >= chunk_size) => pc = "raised"

\* -------------------------------------------------------- EmbeddingService

\* text[:10000] in generate_embedding
TRUNCATE_LEN == 10000

\* `not text or not text.strip()`
IsBlank(text) == text = <<>> \/ Strip(text) = <<>>

\* [0.0] * EMBEDDING_DIM
ZeroVector == [content |-> <<>>, task_type |-> "none"]

\* The content generate_embedding hands to genai.embed_content
document_content(text) == Slice(text, 0, TRUNCATE_LEN)

\* The content generate_query_embedding hands to genai.embed_content
query_content(query) == query

\* A genai.embed_content request.  The provider is external: the vector it
\* returns for a request is identified by the request it answers.
EmbedRequest(content, task_type) == [content |-> content, task_type |-> task_type]

Returned(value) == [raised |-> FALSE, value |-> value]
Failed(error) == [raised |-> TRUE, error |-> error]

\* A text of n characters, alternating so that no two prefixes look alike.
LongText(n) == [i \in 1..n |-> IF i % 2 = 1 THEN "a" ELSE "."]

EmbedTexts ==
    TextsUpTo(MaxShortLen)
      \cup {LongText(n) : n \in (TRUNCATE_LEN - 1)..(TRUNCATE_LEN + MaxExcess)}

\* ----------------------------------------------- specification: the embedder

InitEmbedder ==
    /\ chunk_size = 1
    /\ chunk_overlap = 0
    /\ arg \in EmbedTexts
    /\ pc = "embed"
    /\ result = Returned(ZeroVector)
    /\ provider_calls = <<>>
    /\ NoIngest
    /\ NoStore
    /\ NoQuery

\* generate_embedding(arg) on blank text: the zero vector, no provider call
GenerateEmbeddingBlank ==
    /\ pc = "embed"
    /\ IsBlank(arg)
    /\ result' = Returned(ZeroVector)
    /\ pc' = "returned"
    /\ UNCHANGED <<chunk_size, chunk_overlap, arg, provider_calls, ingestVars, storeVars, queryVars>>

\* generate_embedding(arg); the provider call answers or raises
GenerateEmbedding ==
    /\ pc = "embed"
    /\ ~IsBlank(arg)
    /\ LET req == EmbedRequest(document_content(arg), "retrieval_document")
       IN /\ provider_calls' = Append(provider_calls, req)
          /\ \E ok \in BOOLEAN :
                /\ result' = IF ok THEN Returned(req) ELSE Failed("ProviderError")
                /\ pc' = IF ok THEN "returned" ELSE "raised"
    /\ UNCHANGED <<chunk_size, chunk_overlap, arg, ingestVars, storeVars, queryVars>>

\* generate_query_embedding(arg) on blank text
GenerateQueryEmbeddingBlank ==
    /\ pc = "embed"
    /\ IsBlank(arg)
    /\ result' = Returned(ZeroVector)
    /\ pc' = "returned_query"
    /\ UNCHANGED <<chunk_size, chunk_overlap, arg, provider_calls, ingestVars, storeVars, queryVars>>

\* generate_query_embedding(arg); the provider call answers or raises
GenerateQueryEmbedding ==
    /\ pc = "embed"
    /\ ~IsBlank(arg)
    /\ LET req == EmbedRequest(query_content(arg), "retrieval_query")
       IN /\ provider_calls' = Append(provider_calls, req)
          /\ \E ok \in BOOLEAN :
                /\ result' = IF ok THEN Returned(req) ELSE Failed("ProviderError")
                /\ pc' = IF ok THEN "returned_query" ELSE "raised"
    /\ UNCHANGED <<chunk_size, chunk_overlap, arg, ingestVars, storeVars, queryVars>>

NextEmbedder ==
    \/ GenerateEmbeddingBlank
    \/ GenerateEmbedding
    \/ GenerateQueryEmbeddingBlank
    \/ GenerateQueryEmbedding

SpecEmbedder == InitEmbedder /\ [][NextEmbedder]_vars

\* ---- C10: in document mode and in query mode the provider never receives
\* more than the first 10,000 characters of the text.
C10_TruncatedBeforeCall ==
    \A i \in 1..Len(provider_calls) :
        /\ Len(provider_calls[i].content) <= TRUNCATE_LEN
        /\ provider_calls[i].content = Slice(arg, 0, TRUNCATE_LEN)

\* --------------------------------------------- RAGService.process_source

\* batch_size = 50
batch_size == 50

SourceIds == {"s1", "s2"}

\* Rows an earlier process_source("s1", ...) left in source_chunks.
PriorChunks ==
    <<[source_id |-> "s1", chunk_index |-> 0, content |-> <<"a">>,
       embedding |-> EmbedRequest(<<"a">>, "retrieval_document"), token_count |-> 0]>>

\* chunk_records: zip(chunks, embeddings) made into rows ("metadata": {} left out)
chunk_records(sid, cs, es) ==
    [i \in 1..Min(Len(cs), Len(es)) |->
        [source_id |-> sid,
         chunk_index |-> cs[i].chunk_index,
         content |-> cs[i].content,
         embedding |-> es[i],
         token_count |-> cs[i].token_count]]

\* chunk_records[i:i + batch_size], off by one at its end
batch_short_by_one(records, i) == Slice(records, i, i + batch_size - 1)

\* chunk_records[i:i + batch_size]
batch_at(records, i) == Slice(records, i, i + batch_size)

\* An insert as soon as one embedding is there, not after the whole batch call.
embeddings_started(cs, es) == Len(es) >= 1

\* `embeddings = await generate_embeddings_batch(chunk_contents)` has returned:
\* one embedding per chunk.  Only then are the records built and inserted.
embeddings_complete(cs, es) == Len(es) = Len(cs)

\* The contents process_source is given: every short text, and long unbroken
\* texts that the smallest chunker cuts into batch_size - 1 .. 2 * batch_size +
\* LongTail chunks.
IngestContents ==
    TextsUpTo(MaxContentLen)
      \cup {LongText(n) : n \in {batch_size - 1, batch_size, batch_size + 1,
                                 2 * batch_size, 2 * batch_size + LongTail}}

\* RAGService() holds a TextChunker with chunk_size > chunk_overlap >= 0 (1000 and
\* 200 in __init__; here every such pair within the bounds).
InitIngest ==
    /\ chunk_size \in 1..MaxChunkSize
    /\ chunk_overlap \in 0..(chunk_size - 1)
    /\ arg \in IngestContents
    /\ source_id \in SourceIds
    /\ pc = "process_source"
    /\ result = Returned(0)
    /\ provider_calls = <<>>
    /\ chunks = <<>>
    /\ embeddings = <<>>
    /\ batch_start = 0
    /\ store_calls = <<>>
    /\ source_chunks = PriorChunks
    /\ sources_table = <<>>
    /\ NoQuery

\* chunks = self.chunker.split_text(content); if not chunks: return 0
ChunkContent ==
    /\ pc = "process_source"
    /\ LET r == split_text(arg, chunk_size, chunk_overlap)
       IN /\ chunks' = r.chunks
          /\ pc' = IF r.raised THEN "raised" ELSE IF r.chunks = <<>> THEN "returned" ELSE "ingesting"
          /\ result' = IF r.raised THEN Failed("ValueError") ELSE Returned(0)
    /\ UNCHANGED <<chunk_size, chunk_overlap, arg, provider_calls, source_id,
                   embeddings, batch_start, storeVars, queryVars>>

\* One turn of generate_embeddings_batch's loop: generate_embedding(text) for
\* the next chunk content; a provider failure ends process_source.
EmbedChunk ==
    /\ pc = "ingesting"
    /\ Len(embeddings) < Len(chunks)
    /\ LET text == chunks[Len(embeddings) + 1].content
           req == EmbedRequest(document_content(text), "retrieval_document")
       IN IF IsBlank(text)
          THEN /\ embeddings' = Append(embeddings, ZeroVector)
               /\ UNCHANGED <<provider_calls, pc, result>>
          ELSE /\ provider_calls' = Append(provider_calls, req)
               /\ \E ok \in BOOLEAN :
                     /\ embeddings' = IF ok THEN Append(embeddings, req) ELSE embeddings
                     /\ pc' = IF ok THEN pc ELSE "raised"
                     /\ result' = IF ok THEN result ELSE Failed("ProviderError")
    /\ UNCHANGED <<chunk_size, chunk_overlap, arg, source_id, chunks, batch_start, storeVars,
                   queryVars>>

\* One turn of the insert loop: table("source_chunks").insert(batch).execute();
\* a store failure ends process_source, the batches written before it stay.
InsertBatch ==
    /\ pc = "ingesting"
    /\ embeddings_complete(chunks, embeddings)
    /\ LET records == chunk_records(source_id, chunks, embeddings)
           batch == batch_at(records, batch_start)
       IN /\ batch_start < Len(records)
          /\ store_calls' = Append(store_calls,
                                   [op |-> "insert", table |-> "source_chunks", rows |-> batch])
          /\ \E ok \in BOOLEAN :
                /\ source_chunks' = IF ok THEN source_chunks \o batch ELSE source_chunks
                /\ batch_start' = IF ok THEN batch_start + batch_size ELSE batch_start
                /\ pc' = IF ok THEN pc ELSE "raised"
                /\ result' = IF ok THEN result ELSE Failed("StoreError")
    /\ UNCHANGED <<chunk_size, chunk_overlap, arg, provider_calls, source_id, chunks, embeddings,
                   sources_table, queryVars>>

\* return len(chunk_records)
ReturnCount ==
    /\ pc = "ingesting"
    /\ embeddings_complete(chunks, embeddings)
    /\ LET records == chunk_records(source_id, chunks, embeddings)
       IN /\ batch_start >= Len(records)
          /\ result' = Returned(Len(records))
    /\ pc' = "returned"
    /\ UNCHANGED <<chunk_size, chunk_overlap, arg, provider_calls, ingestVars, storeVars, queryVars>>

NextIngest == ChunkContent \/ EmbedChunk \/ InsertBatch \/ ReturnCount

SpecIngest == InitIngest /\ [][NextIngest]_vars

\* The rows handed to the store by the inserts issued so far, in call order.
RECURSIVE InsertedRows(_)
InsertedRows(calls) ==
    IF calls = <<>> THEN <<>> ELSE calls[1].rows \o InsertedRows(Tail(calls))

\* ---- C2: a process_source call that returns after producing n >= 1 chunk
\* records has issued exactly ceil(n / 50) inserts, each but the last of 50
\* rows, the last of the remainder; the inserted rows in call order are the
\* chunks in chunk order, each with its own embedding; n is returned.  While
\* the call runs, the inserts issued so far are the first batches of that
\* sequence.
C2_BatchedInserts ==
    LET n == Len(chunks)
        k == Len(store_calls)
        rows == InsertedRows(store_calls)
    IN /\ \A j \in 1..k :
            /\ store_calls[j].op = "insert"
            /\ store_calls[j].table = "source_chunks"
            /\ Len(store_calls[j].rows) = Min(batch_size, n - batch_size * (j - 1))
            /\ Len(store_calls[j].rows) >= 1
       /\ \A i \in 1..Len(rows) :
            /\ rows[i].source_id = source_id
            /\ rows[i].chunk_index = chunks[i].chunk_index
            /\ rows[i].content = chunks[i].content
            /\ rows[i].embedding = EmbedRequest(chunks[i].content, "retrieval_document")
       /\ (pc = "returned" /\ n >= 1) =>
            /\ k = (n + batch_size - 1) \div batch_size
            /\ Len(rows) = n
            /\ result = Returned(n)
            /\ source_chunks = PriorChunks \o rows

C2_Witness ==
    /\ pc = "returned"
    /\ Len(chunks) = 2 * batch_size + LongTail
    /\ Len(store_calls) = 3
    /\ Len(store_calls[3].rows) = LongTail

\* ---- C3: when an embedding-provider call fails, process_source fails with no
\* insert executed; every embedding call of the ingest comes before its first
\* insert (once an insert has been issued, every chunk has been embedded).
C3_NoInsertBeforeEmbeddings ==
    /\ (pc = "raised" /\ result = Failed("ProviderError")) =>
          (store_calls = <<>> /\ source_chunks = PriorChunks)
    /\ store_calls # <<>> =>
          (Len(embeddings) = Len(chunks) /\ Len(provider_calls) = Len(chunks))

C3_Witness ==
    /\ pc = "raised"
    /\ result = Failed("ProviderError")
    /\ Len(chunks) > batch_size
    /\ Len(provider_calls) = batch_size + 1
    /\ store_calls = <<>>

\* ---- C4: process_source on empty or whitespace-only content returns 0 and
\* makes no embedding call and no store call; the store is unchanged.
AllWhitespace(text) == \A i \in 1..Len(text) : IsSpace(text[i])

C4_BlankContentTouchesNothing ==
    (AllWhitespace(arg) /\ pc # "process_source") =>
        /\ pc = "returned"
        /\ result = Returned(0)
        /\ provider_calls = <<>>
        /\ store_calls = <<>>
        /\ source_chunks = PriorChunks

C4_Witness ==
    /\ pc = "returned"
    /\ arg = <<SP, NL, TAB>>
    /\ result = Returned(0)
    /\ store_calls = <<>>

\* ------------------------------------------- chat.py: the context builders

\* match_count: int = 10
match_count == 10

\* The rows the table sources may hold.  A missing metadata["content"] or
\* source_guide["summary"] is <<>>; texts are lists of string pieces.
SourceRows ==
    << [id |-> "s1", name |-> "A", notebook_id |-> "n1", status |-> "ready",
        type |-> "text", metadata_content |-> <<"text of s1">>, summary |-> <<>>],
       [id |-> "s2", name |-> "B", notebook_id |-> "n1", status |-> "ready",
        type |-> "pdf", metadata_content |-> <<>>, summary |-> <<"summary of s2">>],
       [id |-> "s3", name |-> "A", notebook_id |-> "n1", status |-> "ready",
        type |-> "text", metadata_content |-> <<>>, summary |-> <<>>],
       [id |-> "s4", name |-> "D", notebook_id |-> "n1", status |-> "processing",
        type |-> "pdf", metadata_content |-> <<>>, summary |-> <<"summary of s4">>],
       [id |-> "s5", name |-> "E", notebook_id |-> "n2", status |-> "ready",
        type |-> "text", metadata_content |-> <<"text of s5">>, summary |-> <<"summary of s5">>] >>

\* The rows a similarity search may return: similarity in thousandths, -1 when
\* the row has no "similarity" key; "s9" is a source the table sources lacks.
ResultRows ==
    { [source_id |-> "s1", content |-> "chunk of s1", similarity |-> 874],
      [source_id |-> "s2", content |-> "chunk of s2", similarity |-> -1],
      [source_id |-> "s3", content |-> "chunk of s3", similarity |-> 1000],
      [source_id |-> "s9", content |-> "chunk of s9", similarity |-> 126] }

RECURSIVE SeqsUpTo(_, _)
SeqsUpTo(S, n) ==
    IF n = 0 THEN {<<>>}
    ELSE LET shorter == SeqsUpTo(S, n - 1)
         IN shorter \cup {Append(t, x) : t \in {u \in shorter : Len(u) = n - 1}, x \in S}

\* "\n".join(parts) and "\n\n".join(parts): the parts' pieces with the joiner between
RECURSIVE Join(_, _)
Join(parts, joiner) ==
    IF parts = <<>> THEN <<>>
    ELSE IF Len(parts) = 1 THEN parts[1]
    ELSE parts[1] \o <<joiner>> \o Join(Tail(parts), joiner)

Digit(d) == <<"0", "1", "2", "3", "4", "5", "6", "7", "8", "9">>[d + 1]

\* str(i) for the ranks that occur
Str(i) == IF i < 10 THEN <<Digit(i)>> ELSE <<Digit(i \div 10), Digit(i % 10)>>

\* f"{similarity:.2f}" for a similarity of x thousandths, 0 <= x <= 1000
\* (none of the values used lies on a rounding tie)
Format2f(x) ==
    LET h == (x + 5) \div 10
    IN <<Digit(h \div 100), ".", Digit((h \div 10) % 10), Digit(h % 10)>>

\* The rows of `sources` with notebook_id = nb, status = "ready" and, when a
\* filter is given, id in the filter: the query get_sources_content builds.
IsReadySourceOf(row, nb, filter) ==
    /\ row.notebook_id = nb
    /\ row.status = "ready"
    /\ (filter # <<>> => row.id \in Range(filter))

RECURSIVE SelectRows(_, _, _)
SelectRows(table, nb, filter) ==
    IF table = <<>> THEN <<>>
    ELSE (IF IsReadySourceOf(table[1], nb, filter) THEN <<table[1]>> ELSE <<>>)
           \o SelectRows(Tail(table), nb, filter)

\* get_sources_content: the content chosen for one source
source_content(source) ==
    IF source.type = "text" /\ source.metadata_content # <<>> THEN source.metadata_content
    ELSE IF source.summary # <<>> THEN source.summary
    ELSE <<"[Source: ", source.name, "]">>

\* get_sources_content's return value for the rows its query returned
get_sources_content(rows) ==
    [text |-> Join([i \in 1..Len(rows) |->
                      <<"--- Source: ", rows[i].name, " ---\n">>
                        \o source_content(rows[i]) \o <<"\n">>], "\n"),
     sources |-> rows,
     source_names |-> [i \in 1..Len(rows) |-> rows[i].name]]

\* `if not chunks` never taken: an empty search result is assembled as it is.
never_fallback(found) == FALSE

\* `if not chunks:` after rag_service.search returned
is_empty_result(found) == found = <<>>

\* The orders list(set(...)) may give the distinct source ids of the chunks.
DistinctIds(found) == {found[i].source_id : i \in 1..Len(found)}

Orders(S) == {o \in SeqsUpTo(S, Cardinality(S)) : Len(o) = Cardinality(S) /\ Range(o) = S}

\* sources = {s["id"]: s for s in sources_result.data}; sources.get(sid)
HasSource(rows, sid) == \E i \in 1..Len(rows) : rows[i].id = sid
SourceOf(rows, sid) == rows[CHOOSE i \in 1..Len(rows) : rows[i].id = sid]

\* source.get("name", "Unknown")
source_name_of(rows, sid) == IF HasSource(rows, sid) THEN SourceOf(rows, sid).name ELSE "Unknown"

\* source_names: the names of the chunks' sources, each once, in order of first
\* appearance (seen_sources)
RECURSIVE names_seen(_, _, _)
names_seen(rows, found, seen) ==
    IF found = <<>> THEN <<>>
    ELSE LET name == source_name_of(rows, found[1].source_id)
         IN (IF name \in seen THEN <<>> ELSE <<name>>)
              \o names_seen(rows, Tail(found), seen \cup {name})

\* The rows of `sources` with id in ids (the lookup for citations)
RECURSIVE RowsWithId(_, _)
RowsWithId(table, ids) ==
    IF table = <<>> THEN <<>>
    ELSE (IF table[1].id \in ids THEN <<table[1]>> ELSE <<>>) \o RowsWithId(Tail(table), ids)

\* get_rag_context's return value on the search path: rows is the lookup's
\* answer, order the list source_ids_from_chunks
assemble_context(found, rows, order) ==
    [text |-> Join([i \in 1..Len(found) |->
                      <<"[">> \o Str(i) \o <<"] Source: ", source_name_of(rows, found[i].source_id),
                                             " (relevance: ">>
                        \o Format2f(IF found[i].similarity < 0 THEN 0 ELSE found[i].similarity)
                        \o <<")\n", found[i].content, "\n">>], "\n\n"),
     sources |-> [j \in 1..Len(order) |->
                    IF HasSource(rows, order[j]) THEN SourceOf(rows, order[j])
                    ELSE [id |-> order[j], name |-> "Unknown"]],
     source_names |-> names_seen(rows, found, {})]

\* --------------------------------------- specification: get_rag_context

QueryTexts == {<<>>, <<SP>>, <<"a">>}
Filters == {<<>>, <<"s1">>, <<"s3", "s2", "s9">>}

\* The tables `sources` may be: s4 and s5 with any of s1, s2, s3.
SourceTables ==
    {SelectSeq(SourceRows, LAMBDA r : r.id \in keep \cup {"s4", "s5"}) : keep \in SUBSET {"s1", "s2", "s3"}}

InitQuery ==
    /\ chunk_size = 1
    /\ chunk_overlap = 0
    /\ arg \in QueryTexts
    /\ notebook_id \in {"n1", "n2"}
    /\ source_ids \in Filters
    /\ sources_table \in SourceTables
    /\ pc = "get_rag_context"
    /\ result = Returned(<<>>)
    /\ search_result = Returned(<<>>)
    /\ provider_calls = <<>>
    /\ store_calls = <<>>
    /\ source_chunks = <<>>
    /\ NoIngest

\* rag_service.search, step 1: generate_query_embedding(query).  A provider
\* failure leaves search by exception, which get_rag_context catches.
SearchEmbedQuery ==
    /\ pc = "get_rag_context"
    /\ IF IsBlank(arg)
       THEN /\ pc' = "match_source_chunks"
            /\ UNCHANGED <<provider_calls, search_result>>
       ELSE /\ provider_calls' = Append(provider_calls,
                                        EmbedRequest(query_content(arg), "retrieval_query"))
            /\ \E ok \in BOOLEAN :
                  /\ pc' = IF ok THEN "match_source_chunks" ELSE "fallback"
                  /\ search_result' = IF ok THEN search_result ELSE Failed("ProviderError")
    /\ UNCHANGED <<chunk_size, chunk_overlap, arg, result, ingestVars, storeVars,
                   notebook_id, source_ids>>

\* The request rag_service.search sends to the store
SearchRequest ==
    [op |-> "rpc", fn |-> "match_source_chunks",
     query_embedding |-> IF IsBlank(arg) THEN ZeroVector
                         ELSE EmbedRequest(query_content(arg), "retrieval_query"),
     match_count |-> match_count,
     p_notebook_id |-> notebook_id,
     p_source_ids |-> source_ids]

\* rag_service.search, step 2: the store raises
SearchRpcFails ==
    /\ pc = "match_source_chunks"
    /\ store_calls' = Append(store_calls, SearchRequest)
    /\ search_result' = Failed("StoreError")
    /\ pc' = "fallback"
    /\ UNCHANGED <<chunk_size, chunk_overlap, arg, result, provider_calls, ingestVars,
                   source_chunks, sources_table, notebook_id, source_ids>>

\* rag_service.search, step 2: the store answers with at most MaxResults rows of
\* eligible sources, best first; `result.data or []`.  get_rag_context then
\* tests `if not chunks`.
SearchRpcAnswers ==
    /\ pc = "match_source_chunks"
    /\ store_calls' = Append(store_calls, SearchRequest)
    /\ \E found \in SeqsUpTo({r \in ResultRows :
                                 source_ids # <<>> => r.source_id \in Range(source_ids)},
                              MaxResults) :
          /\ search_result' = Returned(found)
          /\ pc' = IF is_empty_result(found) THEN "fallback" ELSE "lookup"
    /\ UNCHANGED <<chunk_size, chunk_overlap, arg, result, provider_calls, ingestVars,
                   source_chunks, sources_table, notebook_id, source_ids>>

\* The request get_sources_content sends to the store
FallbackRequest ==
    [op |-> "select", table |-> "sources", notebook_id |-> notebook_id,
     status |-> "ready", ids |-> source_ids]

\* return await get_sources_content(notebook_id, source_ids): its query raises,
\* or answers and the builder's triple is returned
Fallback ==
    /\ pc = "fallback"
    /\ store_calls' = Append(store_calls, FallbackRequest)
    /\ \E ok \in BOOLEAN :
          /\ result' = IF ok
                       THEN Returned(get_sources_content(
                                SelectRows(sources_table, notebook_id, source_ids)))
                       ELSE Failed("StoreError")
          /\ pc' = IF ok THEN "returned" ELSE "raised"
    /\ UNCHANGED <<chunk_size, chunk_overlap, arg, provider_calls, ingestVars,
                   source_chunks, sources_table, queryVars>>

\* The search returned chunks: look the sources up (outside any try) and build
\* the context.  list(set(...)) gives the distinct ids in any order.
LookupAndAssemble ==
    /\ pc = "lookup"
    /\ \E order \in Orders(DistinctIds(search_result.value)) :
          /\ store_calls' = Append(store_calls,
                                   [op |-> "select", table |-> "sources", ids |-> order])
          /\ \E ok \in BOOLEAN :
                /\ result' = IF ok
                             THEN Returned(assemble_context(search_result.value,
                                      RowsWithId(sources_table, Range(order)), order))
                             ELSE Failed("StoreError")
                /\ pc' = IF ok THEN "returned" ELSE "raised"
    /\ UNCHANGED <<chunk_size, chunk_overlap, arg, provider_calls, ingestVars,
                   source_chunks, sources_table, queryVars>>

NextQuery ==
    \/ SearchEmbedQuery
    \/ SearchRpcFails
    \/ SearchRpcAnswers
    \/ Fallback
    \/ LookupAndAssemble

SpecQuery == InitQuery /\ [][NextQuery]_vars

Finished == pc \in {"returned", "raised"}

\* ---- C1: when the query embedding or the similarity search raised, or the
\* search returned no rows, get_rag_context ends as get_sources_content ends for
\* the same notebook and source filter: it returns exactly the builder's (text,
\* sources, source names), and the search's error never reaches the caller (the
\* only request after it is the builder's own read of `sources`).
C1_FallbackLaw ==
    (Finished /\ (search_result.raised \/ search_result.value = <<>>)) =>
        /\ store_calls # <<>>
        /\ store_calls[Len(store_calls)] = FallbackRequest
        /\ result.raised = (pc = "raised")
        /\ ~result.raised =>
              result.value = get_sources_content(SelectRows(sources_table, notebook_id, source_ids))
        /\ ~result.raised =>
              \A i \in 1..Len(result.value.sources) :
                  /\ result.value.sources[i].notebook_id = notebook_id
                  /\ result.value.sources[i].status = "ready"
                  /\ source_ids # <<>> => result.value.sources[i].id \in Range(source_ids)
                  /\ result.value.source_names[i] = result.value.sources[i].name

C1_Witness ==
    /\ pc = "returned"
    /\ search_result = Failed("StoreError")
    /\ source_ids # <<>>
    /\ Len(result.value.sources) = 2
    /\ result.value.text # <<>>

\* ---- C5: when the similarity search returned at least one row, a failure of
\* the source lookup does not abort the query: get_rag_context returns an
\* assembled context, and every source without metadata appears under the
\* placeholder name "Unknown".
C5_LookupFailureTolerated ==
    (Finished /\ ~search_result.raised /\ search_result.value # <<>>) =>
        /\ pc = "returned"
        /\ ~result.raised
        /\ \A j \in 1..Len(result.value.sources) :
              ~HasSource(sources_table, result.value.sources[j].id) =>
                  /\ result.value.sources[j].name = "Unknown"
                  /\ "Unknown" \in Range(result.value.source_names)

\* The distinct elements of a list, each at its first appearance.
RECURSIVE FirstAppearance(_, _)
FirstAppearance(xs, seen) ==
    IF xs = <<>> THEN <<>>
    ELSE (IF xs[1] \in seen THEN <<>> ELSE <<xs[1]>>)
           \o FirstAppearance(Tail(xs), seen \cup {xs[1]})

\* ---- C11: on the search path (the search returned rows and the lookup
\* answered) the returned source records are the distinct sources the rows
\* refer to, in order of first appearance in the rows, and the returned source
\* names are those sources' names in the same order, one per distinct source.
C11_FirstAppearanceOrder ==
    (pc = "returned" /\ ~search_result.raised /\ search_result.value # <<>>) =>
        LET found == search_result.value
            ids == FirstAppearance([i \in 1..Len(found) |-> found[i].source_id], {})
        IN /\ [j \in 1..Len(result.value.sources) |-> result.value.sources[j].id] = ids
           /\ Len(result.value.source_names) = Len(ids)
           /\ \A j \in 1..Len(ids) :
                 result.value.source_names[j] = source_name_of(sources_table, ids[j])

====
